---- MODULE Spec2Model ----
(***************************************************************************)
(* Model of the sales dashboard of BasicPackage/DS.py: the loader          *)
(* (load_and_prepare_data), the KPI computation (calculate_kpis) and the   *)
(* Dash callback update_dashboard served by app.run.                       *)
(*                                                                         *)
(* Money is counted in integer cents, so sums are exact.  A date is the    *)
(* integer month*100+day; its month key is date \div 100, and the order    *)
(* of the zero-padded "YYYY-MM" strings is the order of these integers.    *)
(* A mean is the pair <<sum, count>>; <<0, 0>> is 0.0/0, i.e. NaN.         *)
(***************************************************************************)
EXTENDS Integers, Sequences, FiniteSets

VARIABLES
    raw,        \* the lines of data.csv as read by pd.read_csv
    df,         \* the frame main passes to create_dashboard
    sortBuild,  \* how the installed sort orders equal counts
    inflight,   \* callback requests being served, by selection
    returned,   \* the latest response to each selection
    repeated    \* some selection has been answered more than once

vars == <<raw, df, sortBuild, inflight, returned, repeated>>

\* ---------------------------------------------------------------- bounds
MaxRows == 3
MaxInFlight == 2

\* ------------------------------------------------------------- constants
TopN == 10

\* pandas' missing value (an empty CSV cell read by read_csv)
NA == -999

Row(inv, desc, qty, price, date) ==
    [InvoiceNo |-> inv, Description |-> desc, Quantity |-> qty,
     UnitPrice |-> price, InvoiceDate |-> date]

\* The lines the CSV file may hold: two lines of order 1 in month 1, a line
\* of the same item in month 2, and a line whose unit price is missing.
RawRows ==
    { Row(1, 1, 3, 200, 101),
      Row(1, 2, 1, 500, 115),
      Row(2, 2, 2, 1000, 201),
      Row(3, 1, 1, NA, 203) }

RECURSIVE SeqsUpTo(_, _)
SeqsUpTo(S, n) ==
    IF n = 0 THEN { <<>> }
    ELSE LET shorter == SeqsUpTo(S, n - 1)
         IN  shorter \cup { Append(s, x) : s \in shorter, x \in S }

\* ------------------------------------------------------- generic helpers
Range(s) == { s[i] : i \in 1..Len(s) }

RECURSIVE SumSeq(_)
SumSeq(s) == IF s = <<>> THEN 0 ELSE s[1] + SumSeq(Tail(s))

MinOf(S) == CHOOSE x \in S : \A y \in S : x <= y

RECURSIVE SortedSeq(_)
SortedSeq(S) ==
    IF S = {} THEN <<>>
    ELSE LET m == MinOf(S) IN <<m>> \o SortedSeq(S \ {m})

Permutations(S) ==
    { p \in [1..Cardinality(S) -> S] : \A x \in S : \E i \in DOMAIN p : p[i] = x }

PosIn(s, x) == CHOOSE i \in 1..Len(s) : s[i] = x

\* ---------------------------------------------------------------- loader
HasNA(r) ==
    \/ r.InvoiceNo = NA
    \/ r.Description = NA
    \/ r.Quantity = NA
    \/ r.UnitPrice = NA
    \/ r.InvoiceDate = NA

\* df.drop_duplicates(): keep the first of the rows equal in every column
drop_duplicates(rows) ==
    LET keep(i) == \A j \in 1..(i - 1) : rows[j] # rows[i]
        F[i \in 0..Len(rows)] ==
            IF i = 0 THEN <<>>
            ELSE IF keep(i) THEN Append(F[i - 1], rows[i]) ELSE F[i - 1]
    IN  F[Len(rows)]

\* variant: only a missing Description drops a row (dropna(subset=...))
dropna_description_only(rows) == SelectSeq(rows, LAMBDA r : r.Description # NA)

\* df.dropna(): drop every row with a missing value in any column
dropna(rows) == SelectSeq(rows, LAMBDA r : ~HasNA(r))

\* InvoiceDate.dt.to_period("M").astype(str)
to_period_M(date) == date \div 100

add_features(r) ==
    [InvoiceNo |-> r.InvoiceNo, Description |-> r.Description,
     Quantity |-> r.Quantity, UnitPrice |-> r.UnitPrice,
     InvoiceDate |-> r.InvoiceDate,
     TotalPrice |-> r.Quantity * r.UnitPrice,
     Month |-> to_period_M(r.InvoiceDate)]

load_and_prepare_data(file) ==
    LET cleaned == dropna(drop_duplicates(file))
    IN  [i \in 1..Len(cleaned) |-> add_features(cleaned[i])]

\* ------------------------------------------------------------------ KPIs
Column(rows, c) == [i \in 1..Len(rows) |-> rows[i][c]]

\* Series.sum(): 0 for an empty series
series_sum(xs) == SumSeq(xs)

\* Series.mean(): sum / count, which is 0.0/0 = NaN for an empty series
series_mean(xs) == <<SumSeq(xs), Len(xs)>>

\* variant: the number of records (Series.count()) in place of nunique()
series_count(xs) == Len(xs)

\* Series.nunique()
series_nunique(xs) == Cardinality(Range(xs))

calculate_kpis(rows) ==
    [total_revenue |-> series_sum(Column(rows, "TotalPrice")),
     average_sale  |-> series_mean(Column(rows, "TotalPrice")),
     total_orders  |-> series_nunique(Column(rows, "InvoiceNo"))]

\* ------------------------------------------------------------ aggregates
\* variant: an empty selection is taken to mean "no filter"
filter_isin_empty_is_all(rows, selected_months) ==
    IF selected_months = {} THEN rows
    ELSE SelectSeq(rows, LAMBDA r : r.Month \in selected_months)

\* df[df["Month"].isin(selected_months)]
filter_isin(rows, selected_months) ==
    SelectSeq(rows, LAMBDA r : r.Month \in selected_months)

\* the distinct values of a column in the order they are first met
first_seen(xs) ==
    LET F[i \in 0..Len(xs)] ==
            IF i = 0 THEN <<>>
            ELSE IF xs[i] \in Range(F[i - 1]) THEN F[i - 1]
                 ELSE Append(F[i - 1], xs[i])
    IN  F[Len(xs)]

CountOf(xs, x) == Cardinality({ i \in 1..Len(xs) : xs[i] = x })

\* Series.sort_values(ascending=False) with the default kind="quicksort":
\* descending by count; the order of equal counts is whatever the sort of
\* the installed build leaves, which sortBuild fixes for the whole run.
SortsBefore(keys, xs, a, b) ==
    \/ CountOf(xs, a) > CountOf(xs, b)
    \/ /\ CountOf(xs, a) = CountOf(xs, b)
       /\ IF sortBuild.stable
          THEN PosIn(keys, a) < PosIn(keys, b)
          ELSE PosIn(sortBuild.order, a) < PosIn(sortBuild.order, b)

RECURSIVE sort_values(_, _, _)
sort_values(keys, xs, left) ==
    IF left = {} THEN <<>>
    ELSE LET top == CHOOSE a \in left :
                        \A b \in left \ {a} : SortsBefore(keys, xs, a, b)
         IN  <<top>> \o sort_values(keys, xs, left \ {top})

head(s, n) == SubSeq(s, 1, IF Len(s) < n THEN Len(s) ELSE n)

\* filtered_df["Description"].value_counts().head(10).reset_index()
value_counts_head(rows) ==
    LET xs     == Column(rows, "Description")
        keys   == first_seen(xs)
        sorted == sort_values(keys, xs, Range(keys))
        top    == head(sorted, TopN)
    IN  [i \in 1..Len(top) |-> <<top[i], CountOf(xs, top[i])>>]

\* variant: groupby(...).first() in place of .sum()
groupby_month_first(rows) ==
    LET months == SortedSeq(Range(Column(rows, "Month")))
        group(m) == SelectSeq(rows, LAMBDA r : r.Month = m)
    IN  [i \in 1..Len(months) |-> <<months[i], group(months[i])[1].TotalPrice>>]

\* variant: groupby("Month", sort=False), groups in order of appearance
groupby_month_unsorted(rows) ==
    LET months == first_seen(Column(rows, "Month"))
        group(m) == SelectSeq(rows, LAMBDA r : r.Month = m)
    IN  [i \in 1..Len(months) |->
            <<months[i], series_sum(Column(group(months[i]), "TotalPrice"))>>]

\* filtered_df.groupby("Month")["TotalPrice"].sum().reset_index()
groupby_month_sum(rows) ==
    LET months == SortedSeq(Range(Column(rows, "Month")))
        group(m) == SelectSeq(rows, LAMBDA r : r.Month = m)
    IN  [i \in 1..Len(months) |->
            <<months[i], series_sum(Column(group(months[i]), "TotalPrice"))>>]

\* months = sorted(df["Month"].unique()): the options of the dropdown
MonthOptions == Range(Column(df, "Month"))

\* variant: the KPIs are computed from the whole table
update_dashboard_kpis_unfiltered(selected_months) ==
    LET filtered_df == filter_isin(df, selected_months)
        kpis == calculate_kpis(df)
    IN  [sel           |-> selected_months,
         total_revenue |-> kpis.total_revenue,
         average_sale  |-> kpis.average_sale,
         total_orders  |-> kpis.total_orders,
         top_products  |-> value_counts_head(filtered_df),
         monthly_sales |-> groupby_month_sum(filtered_df)]

\* variant: the line chart's series is kept from the latest response to the
\* full selection instead of being recomputed
update_dashboard_cached(selected_months) ==
    LET filtered_df == filter_isin(df, selected_months)
        kpis == calculate_kpis(filtered_df)
    IN  [sel           |-> selected_months,
         total_revenue |-> kpis.total_revenue,
         average_sale  |-> kpis.average_sale,
         total_orders  |-> kpis.total_orders,
         top_products  |-> value_counts_head(filtered_df),
         monthly_sales |-> IF returned[MonthOptions] # <<>>
                           THEN returned[MonthOptions][1].monthly_sales
                           ELSE groupby_month_sum(filtered_df)]

update_dashboard(selected_months) ==
    LET filtered_df == filter_isin(df, selected_months)
        kpis == calculate_kpis(filtered_df)
    IN  [sel           |-> selected_months,
         total_revenue |-> kpis.total_revenue,
         average_sale  |-> kpis.average_sale,
         total_orders  |-> kpis.total_orders,
         top_products  |-> value_counts_head(filtered_df),
         monthly_sales |-> groupby_month_sum(filtered_df)]

\* ------------------------------------------------------------- dashboard
AllMonths == { to_period_M(r.InvoiceDate) : r \in RawRows }
Selections == SUBSET AllMonths
Items == { r.Description : r \in RawRows }

\* the number of callback requests being served
RECURSIVE BagSize(_, _)
BagSize(bag, S) ==
    IF S = {} THEN 0
    ELSE LET s == CHOOSE x \in S : TRUE IN bag[s] + BagSize(bag, S \ {s})

InFlight == BagSize(inflight, Selections)

Init ==
    /\ raw \in SeqsUpTo(RawRows, MaxRows) \ { <<>> }
    /\ df = load_and_prepare_data(raw)
    /\ sortBuild \in { [stable |-> TRUE, order |-> SortedSeq(Items)] }
                     \cup { [stable |-> FALSE, order |-> p] : p \in Permutations(Items) }
    /\ inflight = [s \in Selections |-> 0]
    /\ returned = [s \in Selections |-> <<>>]
    /\ repeated = FALSE

\* The dropdown's value changes: the browser posts the callback request and
\* the development server started by app.run hands it to a thread of its own,
\* whether or not an earlier request is still being served.
SelectionChanged(selected_months) ==
    /\ InFlight < MaxInFlight
    /\ selected_months \subseteq MonthOptions
    /\ inflight' = [inflight EXCEPT ![selected_months] = @ + 1]
    /\ UNCHANGED <<raw, df, sortBuild, returned, repeated>>

\* A request thread runs update_dashboard to its return; the response
\* carries the three outputs together.  returned[s] is the latest response
\* to a request with selection s, <<>> while there has been none; repeated
\* records that some selection has been answered more than once.
CallbackReturns(selected_months) ==
    /\ inflight[selected_months] > 0
    /\ returned' = [returned EXCEPT ![selected_months] = <<update_dashboard(selected_months)>>]
    /\ repeated' = (repeated \/ returned[selected_months] # <<>>)
    /\ inflight' = [inflight EXCEPT ![selected_months] = @ - 1]
    /\ UNCHANGED <<raw, df, sortBuild>>

Next ==
    \/ \E s \in Selections : SelectionChanged(s)
    \/ \E s \in Selections : CallbackReturns(s)

Spec == Init /\ [][Next]_vars

\* ===================================================================
\* Properties
\* ===================================================================
Done(s) == returned[s] # <<>>
Out(s) == returned[s][1]

\* the rows of the table whose period is in the selection, by position
Sub(s) == { i \in 1..Len(df) : to_period_M(df[i].InvoiceDate) \in s }

RECURSIVE RevenueOver(_)
RevenueOver(I) ==
    IF I = {} THEN 0
    ELSE LET i == CHOOSE x \in I : TRUE
         IN  df[i].Quantity * df[i].UnitPrice + RevenueOver(I \ {i})

OrdersOver(I) == { df[i].InvoiceNo : i \in I }
ItemsOver(I) == { df[i].Description : i \in I }
PeriodsOver(I) == { to_period_M(df[i].InvoiceDate) : i \in I }
LinesOf(I, item) == { i \in I : df[i].Description = item }
FirstLine(I, item) == MinOf(LinesOf(I, item))

IsZero(mean) == mean[2] # 0 /\ mean[1] = 0
IsNaN(mean) == mean[2] = 0

\* C1: the metrics of an empty subset are totalRevenue = 0, averageValue = 0
\* and orderCount = 0 (the average of nothing is 0, not NaN).
C1_EmptySubsetZeroMetrics ==
    \A s \in Selections :
        (Done(s) /\ Sub(s) = {}) =>
            /\ Out(s).total_revenue = 0
            /\ IsZero(Out(s).average_sale)
            /\ Out(s).total_orders = 0

\* C2: orderCount is the number of distinct order identifiers of the subset,
\* not its number of records.
C2_OrderCountIsDistinctOrders ==
    \A s \in Selections :
        Done(s) => Out(s).total_orders = Cardinality(OrdersOver(Sub(s)))

C2_Witness ==
    \E s \in Selections :
        /\ Done(s)
        /\ Cardinality(OrdersOver(Sub(s))) < Cardinality(Sub(s))
        /\ Out(s).total_orders >= 2

C4_TopItemsStableOrder ==
    \A s \in Selections :
        Done(s) =>
            LET tp == Out(s).top_products
                I  == Sub(s)
                cnt(x) == Cardinality(LinesOf(I, x))
            IN  /\ Len(tp) <= TopN
                /\ Len(tp) = IF Cardinality(ItemsOver(I)) < TopN
                             THEN Cardinality(ItemsOver(I)) ELSE TopN
                /\ \A k \in 1..Len(tp) :
                       tp[k][1] \in ItemsOver(I) /\ tp[k][2] = cnt(tp[k][1])
                /\ \A k, l \in 1..Len(tp) : k < l => tp[k][1] # tp[l][1]
                /\ \A x \in ItemsOver(I) :
                       (\A k \in 1..Len(tp) : tp[k][1] # x) =>
                           \A k \in 1..Len(tp) : tp[k][2] >= cnt(x)
                /\ \A k, l \in 1..Len(tp) : k < l => tp[k][2] >= tp[l][2]
                /\ \A k, l \in 1..Len(tp) :
                       (k < l /\ tp[k][2] = tp[l][2]) =>
                           FirstLine(I, tp[k][1]) < FirstLine(I, tp[l][1])

\* C5: periodTotals has exactly one entry per period occurring in the subset,
\* each with the sum of that period's line totals, ascending by period.
C5_PeriodTotalsPerPeriodAscending ==
    \A s \in Selections :
        Done(s) =>
            LET ms == Out(s).monthly_sales
                I  == Sub(s)
            IN  /\ { ms[k][1] : k \in 1..Len(ms) } = PeriodsOver(I)
                /\ \A k, l \in 1..Len(ms) : k < l => ms[k][1] < ms[l][1]
                /\ \A k \in 1..Len(ms) :
                       ms[k][2] = RevenueOver({ i \in I :
                                     to_period_M(df[i].InvoiceDate) = ms[k][1] })

\* two periods, the later one first in the table, one of them with two lines
C5_Witness ==
    \E s \in Selections :
        /\ Done(s)
        /\ Len(Out(s).monthly_sales) = 2
        /\ Len(df) = 3
        /\ df[1].Month > df[2].Month

\* C6: every output of a response is computed from exactly the records whose
\* period is in the selection.
C6_AllOutputsFromTheSelectedSubset ==
    \A s \in Selections :
        Done(s) =>
            LET o == Out(s)
                I == Sub(s)
            IN  /\ o.sel = s
                /\ o.total_revenue = RevenueOver(I)
                /\ o.average_sale = <<RevenueOver(I), Cardinality(I)>>
                /\ o.total_orders = Cardinality(OrdersOver(I))
                /\ { o.top_products[k][1] : k \in 1..Len(o.top_products) } \subseteq ItemsOver(I)
                /\ Len(o.top_products) = IF Cardinality(ItemsOver(I)) < TopN
                                         THEN Cardinality(ItemsOver(I)) ELSE TopN
                /\ \A k \in 1..Len(o.top_products) :
                       o.top_products[k][2] = Cardinality(LinesOf(I, o.top_products[k][1]))
                /\ { o.monthly_sales[k][1] : k \in 1..Len(o.monthly_sales) } = PeriodsOver(I)
                /\ SumSeq([k \in 1..Len(o.monthly_sales) |-> o.monthly_sales[k][2]])
                       = RevenueOver(I)

\* a proper, non-empty part of a table is selected
C6_Witness ==
    \E s \in Selections :
        /\ Done(s)
        /\ Sub(s) # {}
        /\ Cardinality(Sub(s)) < Len(df)
        /\ Out(s).total_revenue = 2000

\* C7: a request for a selection that was answered before gets the same
\* response again, whatever was requested and answered since.
C7_SameSelectionSameOutput ==
    [][\A s \in Selections : Done(s) => returned'[s] = returned[s]]_vars

C7_Witness ==
    /\ repeated
    /\ \E s, t \in Selections :
           /\ s # t
           /\ Done(s) /\ Done(t)
           /\ Out(s).monthly_sales # Out(t).monthly_sales

\* C8: a request with the empty selection completes, and its topItems and
\* periodTotals are empty.
C8_EmptySelectionEmptyAggregates ==
    /\ inflight[{}] > 0 => ENABLED CallbackReturns({})
    /\ Done({}) =>
           /\ Out({}).top_products = <<>>
           /\ Out({}).monthly_sales = <<>>

C8_Witness ==
    /\ Done({})
    /\ Len(df) >= 2

\* the distinct complete lines of the file
CompleteRows == { r \in Range(raw) : ~HasNA(r) }
CompleteIn(s) == { r \in CompleteRows : to_period_M(r.InvoiceDate) \in s }

RECURSIVE RevenueOfRows(_)
RevenueOfRows(R) ==
    IF R = {} THEN 0
    ELSE LET r == CHOOSE x \in R : TRUE
         IN  r.Quantity * r.UnitPrice + RevenueOfRows(R \ {r})

OriginalFields(r) ==
    Row(r.InvoiceNo, r.Description, r.Quantity, r.UnitPrice, r.InvoiceDate)

\* C9: the loaded table has no two records equal in all original fields and
\* no record with a missing field, and every metric, count and sum of every
\* response counts the distinct complete lines of the file and nothing else.
C9_LoaderDropsDuplicatesAndIncomplete ==
    /\ \A i, j \in 1..Len(df) :
           i # j => OriginalFields(df[i]) # OriginalFields(df[j])
    /\ \A i \in 1..Len(df) : ~HasNA(df[i])
    /\ \A s \in Selections :
           Done(s) =>
               LET o == Out(s)
                   R == CompleteIn(s)
               IN  /\ o.total_revenue = RevenueOfRows(R)
                   /\ o.average_sale[2] = Cardinality(R)
                   /\ o.total_orders = Cardinality({ r.InvoiceNo : r \in R })
                   /\ \A k \in 1..Len(o.top_products) :
                          o.top_products[k][2] = Cardinality({ r \in R :
                              r.Description = o.top_products[k][1] })
                   /\ SumSeq([k \in 1..Len(o.monthly_sales) |-> o.monthly_sales[k][2]])
                          = RevenueOfRows(R)

\* the file held a line without a unit price and a duplicated line
C9_Witness ==
    /\ \E i \in 1..Len(raw) : raw[i].UnitPrice = NA
    /\ \E i, j \in 1..Len(raw) : i # j /\ raw[i] = raw[j] /\ ~HasNA(raw[i])
    /\ Done(MonthOptions)
    /\ Len(df) = 1

\* C10: selection changes are handled one at a time: no request is accepted
\* while the recomputation of an earlier one has not completed.
C10_AtMostOneRecomputationInFlight ==
    InFlight <= 1

====
